---- MODULE Spec2Model ----
(***************************************************************************)
(* Terraform provider for Octopus Deploy: the CRUD handlers of the         *)
(* deployment-process, deployment-target-trigger and lifecycle resources,  *)
(* run against a model of the remote API client.                           *)
(*                                                                         *)
(* Strings the handlers inspect (identifiers, branches) are sequences of   *)
(* one-character strings, so that the regular expressions and the split    *)
(* the code applies to them are computed, not assumed.                     *)
(***************************************************************************)
EXTENDS Integers, Sequences, FiniteSets, TLC

VARIABLES
    focus,      \* which resource type the plugin runtime is driving
    procs,      \* remote deployment processes: Links -> [Version, Steps]
    dpId,       \* d.Id() of each deployment-process resource
    dpPc,       \* position of each deployment-process invocation
    dpInv,      \* the invocation in flight / just returned, per resource
    triggers,   \* remote project triggers: the set of their IDs
    trigId,     \* d.Id() of the trigger resource
    trigRes,    \* outcome of the last trigger handler
    lifecycles, \* remote lifecycles: ID -> lifecycle
    lcId,       \* d.Id() of the lifecycle resource
    lcState,    \* attributes of the lifecycle resource (d.Set / config)
    lcRes,      \* outcome of the last lifecycle handler
    refIn,      \* identifier round trip: the inputs drawn
    refOut      \* identifier round trip: identifier built and ref extracted

vars == <<focus, procs, dpId, dpPc, dpInv, triggers, trigId, trigRes,
          lifecycles, lcId, lcState, lcRes, refIn, refOut>>

dpVars == <<procs, dpId, dpPc, dpInv>>
trigVars == <<triggers, trigId, trigRes>>
lcVars == <<lifecycles, lcId, lcState, lcRes>>
refVars == <<refIn, refOut>>

---------------------------------------------------------------------------
(* Bounds of the model *)

MaxVersion == 2      \* remote versions run 0..MaxVersion
MaxDigits == 2       \* digits of a drawn project number
MaxBranchLen == 2    \* characters of a drawn branch name
MaxPhases == 2       \* phases of a drawn lifecycle configuration
MaxTriggers == 2     \* triggers the server will hold

---------------------------------------------------------------------------
(* Characters and strings *)

Digit == {"0", "1", "2", "3", "4", "5", "6", "7", "8", "9"}

Letter == {"a", "b", "c", "d", "e", "f", "g", "h", "i", "j", "k", "l", "m",
           "n", "o", "p", "q", "r", "s", "t", "u", "v", "w", "x", "y", "z",
           "A", "B", "C", "D", "E", "F", "G", "H", "I", "J", "K", "L", "M",
           "N", "O", "P", "Q", "R", "S", "T", "U", "V", "W", "X", "Y", "Z"}

\* \w of Go's regexp: [0-9A-Za-z_]
Word == Digit \cup Letter \cup {"_"}

EmptyString == << >>

Hyphen == <<"-">>

ProjectsPrefix == <<"P", "r", "o", "j", "e", "c", "t", "s", "-">>

DeploymentProcessPrefix ==
    <<"d", "e", "p", "l", "o", "y", "m", "e", "n", "t",
      "p", "r", "o", "c", "e", "s", "s", "-">>

\* the last index of the run of characters of class C that starts at s[i]
RunEnd(s, i, C) ==
    CHOOSE j \in i..Len(s) :
        /\ \A k \in i..j : s[k] \in C
        /\ (j = Len(s) \/ s[j + 1] \notin C)

\* regexp `Projects-\d+` matches at index i of s
ProjectPatternAt(s, i) ==
    /\ i + Len(ProjectsPrefix) <= Len(s)
    /\ SubSeq(s, i, i + Len(ProjectsPrefix) - 1) = ProjectsPrefix
    /\ s[i + Len(ProjectsPrefix)] \in Digit

\* regexp.Compile(`Projects-\d+`).FindString(s): leftmost match, digits greedy
FindProjectID(s) ==
    LET starts == {i \in 1..Len(s) : ProjectPatternAt(s, i)}
    IN  IF starts = {} THEN EmptyString
        ELSE LET i == CHOOSE x \in starts : \A y \in starts : x <= y
             IN  SubSeq(s, i, RunEnd(s, i + Len(ProjectsPrefix), Digit))

\* regexp `\d+-\w+` matches at index i of s
GitRefPatternAt(s, i) ==
    /\ s[i] \in Digit
    /\ LET e == RunEnd(s, i, Digit)
       IN  /\ e + 2 <= Len(s)
           /\ s[e + 1] = "-"
           /\ s[e + 2] \in Word

\* regexp.Compile(`\d+-\w+`).FindString(s): leftmost match, both runs greedy
FindGitRefPattern(s) ==
    LET starts == {i \in 1..Len(s) : GitRefPatternAt(s, i)}
    IN  IF starts = {} THEN EmptyString
        ELSE LET i == CHOOSE x \in starts : \A y \in starts : x <= y
                 e == RunEnd(s, i, Digit)
             IN  SubSeq(s, i, RunEnd(s, e + 2, Word))

\* strings.SplitAfter(s, "-"): the pieces of s, each keeping its trailing "-"
RECURSIVE SplitAfter(_)
SplitAfter(s) ==
    LET cuts == {i \in 1..Len(s) : s[i] = "-"}
    IN  IF cuts = {} THEN <<s>>
        ELSE LET k == CHOOSE x \in cuts : \A y \in cuts : x <= y
             IN  <<SubSeq(s, 1, k)>> \o SplitAfter(SubSeq(s, k + 1, Len(s)))

\* getGitRef: parts[1] (the second piece) when there are more than two pieces
getGitRef(id) ==
    LET parts == SplitAfter(FindGitRefPattern(id))
    IN  IF Len(parts) > 2 THEN parts[2] ELSE EmptyString

\* the composite identifier Create and Update assign
CompositeID(projectID, branch) ==
    DeploymentProcessPrefix \o projectID \o Hyphen \o branch

---------------------------------------------------------------------------
(* The remote server: projects and deployment processes *)

Main == <<"m", "a", "i", "n">>

Dev == <<"d", "e", "v">>

ProjDb == ProjectsPrefix \o <<"1">>

ProjVcs == ProjectsPrefix \o <<"2">>

ProjMissing == ProjectsPrefix \o <<"9">>

\* the projects the server holds: one stored in the database, one in git
Projects ==
    { [ID |-> ProjDb, VersionControlled |-> FALSE,
       DeploymentProcessID |-> DeploymentProcessPrefix \o ProjDb],
      [ID |-> ProjVcs, VersionControlled |-> TRUE,
       DeploymentProcessID |-> DeploymentProcessPrefix \o ProjVcs] }

NoProject ==
    [ID |-> EmptyString, VersionControlled |-> FALSE,
     DeploymentProcessID |-> EmptyString]

\* the Links of a deployment process: where the server keeps it
Link(projectID, ref) == [project |-> projectID, ref |-> ref]

NoLinks == Link(EmptyString, EmptyString)

InitialLinks ==
    {Link(ProjDb, EmptyString), Link(ProjVcs, Main), Link(ProjVcs, Dev)}

DefaultBranch == Main

\* the deployment process the server returns for the process kept at l
Entity(l) ==
    [ID |-> DeploymentProcessPrefix \o l.project, ProjectID |-> l.project,
     Links |-> l, Version |-> procs[l].Version, Steps |-> procs[l].Steps]

NoEntity ==
    [ID |-> EmptyString, ProjectID |-> EmptyString, Links |-> NoLinks,
     Version |-> 0 - 1, Steps |-> "none"]

\* one call to the API client, as a handler issues it: its arguments, the
\* version it carries (Update) or brings back (a fetch), and its error
Call(api, id, project, ref, version, err) ==
    [api |-> api, id |-> id, project |-> project, ref |-> ref,
     version |-> version, err |-> err]

\* client.Projects.GetByID
ProjectsGetByID(id, fault) ==
    IF fault THEN [err |-> "Transient", project |-> NoProject]
    ELSE IF \E p \in Projects : p.ID = id
    THEN [err |-> "none", project |-> CHOOSE p \in Projects : p.ID = id]
    ELSE [err |-> "NotFound", project |-> NoProject]

\* client.DeploymentProcesses.GetByID: only database processes have an ID
DeploymentProcessesGetByID(id, fault) ==
    LET hits == {l \in DOMAIN procs :
                    /\ l.ref = EmptyString
                    /\ DeploymentProcessPrefix \o l.project = id}
    IN  IF fault THEN [err |-> "Transient", entity |-> NoEntity]
        ELSE IF hits = {} THEN [err |-> "NotFound", entity |-> NoEntity]
        ELSE [err |-> "none", entity |-> Entity(CHOOSE l \in hits : TRUE)]

\* client.DeploymentProcesses.Get(project, gitRef). What the server answers
\* for an empty ref on a version-controlled project is not fixed by the
\* handlers: emptyRefIsDefault chooses between the default branch and 404.
DeploymentProcessesGet(project, gitRef, fault, emptyRefIsDefault) ==
    IF fault THEN [err |-> "Transient", entity |-> NoEntity]
    ELSE IF ~project.VersionControlled
    THEN DeploymentProcessesGetByID(project.DeploymentProcessID, FALSE)
    ELSE IF Link(project.ID, gitRef) \in DOMAIN procs
    THEN [err |-> "none", entity |-> Entity(Link(project.ID, gitRef))]
    ELSE IF /\ gitRef = EmptyString
            /\ emptyRefIsDefault
            /\ Link(project.ID, DefaultBranch) \in DOMAIN procs
    THEN [err |-> "none", entity |-> Entity(Link(project.ID, DefaultBranch))]
    ELSE [err |-> "NotFound", entity |-> NoEntity]

\* client.DeploymentProcesses.Update against a server that rejects stale
\* versions: the outcome and the server's processes afterwards
DeploymentProcessesUpdate(payload, fault) ==
    IF fault THEN [err |-> "Transient", entity |-> NoEntity, procs |-> procs]
    ELSE IF payload.ID = EmptyString
    THEN [err |-> "InvalidParameter", entity |-> NoEntity, procs |-> procs]
    ELSE IF payload.Links \notin DOMAIN procs
    THEN [err |-> "NotFound", entity |-> NoEntity, procs |-> procs]
    ELSE IF payload.Version # procs[payload.Links].Version
    THEN [err |-> "Conflict", entity |-> NoEntity, procs |-> procs]
    ELSE LET stored == [Version |-> payload.Version + 1,
                        Steps |-> payload.Steps]
         IN  [err |-> "none",
              entity |-> [ID |-> DeploymentProcessPrefix \o payload.Links.project,
                          ProjectID |-> payload.Links.project,
                          Links |-> payload.Links,
                          Version |-> stored.Version, Steps |-> stored.Steps],
              procs |-> [procs EXCEPT ![payload.Links] = stored]]

---------------------------------------------------------------------------
(* Deployment-process resource: payloads, invocations, inputs *)

Resources == {1, 2}

\* the resources whose handlers run: two when invocations are interleaved
ActiveResources == IF focus = "concurrent" THEN Resources ELSE {1}

FetchApis ==
    {"DeploymentProcesses.GetByID", "Projects.GetByID", "DeploymentProcesses.Get"}

\* the read calls that fail with a transient error in one invocation
FaultSets == IF focus = "concurrent" THEN {{}} ELSE SUBSET FetchApis

\* whether the Update call may fail with a transient error
UpdateFaults == IF focus = "concurrent" THEN {FALSE} ELSE BOOLEAN

\* the configurations the runtime hands a handler; interleaved invocations
\* are given the ones that reach a remote process
Configs ==
    IF focus = "concurrent"
    THEN [project_id : {ProjDb, ProjVcs}, branch : {Main}, step : {"s1"}]
    ELSE [project_id : {ProjDb, ProjVcs, ProjMissing},
          branch : {EmptyString, Main, Dev},
          step : {"s1"}]

\* Read and Delete take no configuration
NoConfig == [project_id |-> EmptyString, branch |-> EmptyString, step |-> "none"]

\* the answers the server may give for an empty ref
EmptyRefAnswers == IF focus = "concurrent" THEN {FALSE} ELSE BOOLEAN

\* identifiers a resource may hold before any handler of this run: none, or
\* the server ID it got while its project was still stored in the database
InitialIds == {EmptyString, DeploymentProcessPrefix \o ProjVcs}

NoPayload ==
    [ID |-> EmptyString, ProjectID |-> EmptyString, Branch |-> EmptyString,
     Links |-> NoLinks, Version |-> 0, Steps |-> "none"]

NoInv ==
    [op |-> "none", idBefore |-> EmptyString, project |-> EmptyString,
     branch |-> EmptyString, payload |-> NoPayload, vcs |-> FALSE, calls |-> << >>, err |-> "none"]

\* expandDeploymentProcess: the payload built from the resource data
expandDeploymentProcess(id, cfg) ==
    [ID |-> id, ProjectID |-> cfg.project_id, Branch |-> cfg.branch,
     Links |-> NoLinks, Version |-> 0, Steps |-> cfg.step]

\* what the read half of a handler leaves: the diagnostic (or "none"), the
\* identifier afterwards, the payload to submit and the calls issued
Outcome(err, id, payload, vcs, calls) ==
    [err |-> err, id |-> id, payload |-> payload, vcs |-> vcs, calls |-> calls]

ProjectCall(id, res) ==
    Call("Projects.GetByID", id, EmptyString, EmptyString, 0 - 1, res.err)

GetByIDCall(id, res) ==
    Call("DeploymentProcesses.GetByID", id, EmptyString, EmptyString,
         res.entity.Version, res.err)

GetCall(project, ref, res) ==
    Call("DeploymentProcesses.Get", EmptyString, project.ID, ref,
         res.entity.Version, res.err)

UpdateCall(payload, res) ==
    Call("DeploymentProcesses.Update", payload.ID, payload.Links.project,
         payload.Links.ref, payload.Version, res.err)

\* the payload with the fetched entity's links and version copied onto it
WithCurrent(payload, current) ==
    [payload EXCEPT !.Links = current.Links, !.Version = current.Version]

\* no new invocation starts once a version has reached the bound
VersionsBelowBound == \A l \in DOMAIN procs : procs[l].Version < MaxVersion

---------------------------------------------------------------------------
(* resourceDeploymentProcessCreate *)

\* lines 59-84: resolve the project, fetch the current process, copy its
\* ID, links and version onto the payload
CreateLookup(cfg, faults, emptyRefIsDefault) ==
    LET dp == expandDeploymentProcess(EmptyString, cfg)
        pr == ProjectsGetByID(dp.ProjectID, "Projects.GetByID" \in faults)
        c1 == <<ProjectCall(dp.ProjectID, pr)>>
    IN  IF pr.err # "none" THEN Outcome(pr.err, EmptyString, dp, FALSE, c1)
        ELSE LET vc == pr.project.VersionControlled
                 cur == IF vc
                        THEN DeploymentProcessesGet(pr.project, dp.Branch,
                                 "DeploymentProcesses.Get" \in faults,
                                 emptyRefIsDefault)
                        ELSE DeploymentProcessesGetByID(
                                 pr.project.DeploymentProcessID,
                                 "DeploymentProcesses.GetByID" \in faults)
                 c2 == IF vc THEN Append(c1, GetCall(pr.project, dp.Branch, cur))
                       ELSE Append(c1, GetByIDCall(pr.project.DeploymentProcessID, cur))
             IN  IF cur.err # "none"
                 THEN Outcome(cur.err, EmptyString, dp, vc, c2)
                 ELSE Outcome("none", EmptyString,
                              [WithCurrent(dp, cur.entity) EXCEPT
                                  !.ID = cur.entity.ID], vc, c2)

\* a Create that always stores the server's ID
CreatedIDServerOnly(vcs, created, branch) == created.ID

\* lines 95-98: the identifier Create stores
CreatedID(vcs, created, branch) ==
    IF vcs THEN CompositeID(created.ProjectID, branch) ELSE created.ID

\* the invocation record a handler's read half leaves behind
Started(op, r, cfg, o) ==
    [op |-> op, idBefore |-> dpId[r], project |-> cfg.project_id,
     branch |-> cfg.branch,
     payload |-> o.payload, vcs |-> o.vcs, calls |-> o.calls, err |-> o.err]

resourceDeploymentProcessCreate(r, cfg, faults, emptyRefIsDefault) ==
    /\ dpPc[r] = "idle"
    /\ dpId[r] = EmptyString
    /\ VersionsBelowBound
    /\ LET o == CreateLookup(cfg, faults, emptyRefIsDefault)
       IN  /\ dpInv' = [dpInv EXCEPT ![r] = Started("Create", r, cfg, o)]
           /\ dpPc' = [dpPc EXCEPT ![r] = IF o.err = "none" THEN "submit" ELSE "done"]
    /\ UNCHANGED <<procs, dpId>>

\* the invocation record after the Update call and what follows it
Finished(r, sent, u, err) ==
    [dpInv[r] EXCEPT !.calls = Append(@, UpdateCall(sent, u)), !.err = err]

\* lines 86-103: submit the update, set state, store the identifier
resourceDeploymentProcessCreateSubmit(r, fault, setErr) ==
    /\ dpPc[r] = "submit"
    /\ dpInv[r].op = "Create"
    /\ LET u == DeploymentProcessesUpdate(dpInv[r].payload, fault)
           err == IF u.err # "none" THEN u.err
                  ELSE IF setErr THEN "SetState" ELSE "none"
       IN  /\ procs' = u.procs
           /\ dpInv' = [dpInv EXCEPT ![r] = Finished(r, dpInv[r].payload, u, err)]
           /\ dpId' = [dpId EXCEPT ![r] =
                          IF err = "none"
                          THEN CreatedID(dpInv[r].vcs, u.entity, dpInv[r].payload.Branch)
                          ELSE @]
    /\ dpPc' = [dpPc EXCEPT ![r] = "done"]

---------------------------------------------------------------------------
(* resourceDeploymentProcessDelete *)

\* the emptied process Delete submits: identifier, links and version only
EmptiedProcess(id, current) ==
    [ID |-> id, ProjectID |-> EmptyString, Branch |-> EmptyString,
     Links |-> current.Links, Version |-> current.Version, Steps |-> "empty"]

\* lines 110-146: resolve the current entity (direct ID, then project and
\* git ref recovered from the identifier) and build the emptied process
DeleteLookup(id, faults, emptyRefIsDefault) ==
    LET direct == DeploymentProcessesGetByID(id,
                      "DeploymentProcesses.GetByID" \in faults)
        c1 == <<GetByIDCall(id, direct)>>
    IN  IF direct.err = "none"
        THEN Outcome("none", id, EmptiedProcess(id, direct.entity), FALSE, c1)
        ELSE LET projectID == FindProjectID(id)
                 pr == ProjectsGetByID(projectID, "Projects.GetByID" \in faults)
                 c2 == Append(c1, ProjectCall(projectID, pr))
             IN  IF pr.err # "none"
                 THEN Outcome(pr.err, id, NoPayload, FALSE, c2)
                 ELSE LET gitRef == getGitRef(id)
                          cur == DeploymentProcessesGet(pr.project, gitRef,
                                     "DeploymentProcesses.Get" \in faults,
                                     emptyRefIsDefault)
                          c3 == Append(c2, GetCall(pr.project, gitRef, cur))
                      IN  IF cur.err # "none"
                          THEN Outcome(cur.err, id, NoPayload, FALSE, c3)
                          ELSE Outcome("none", id,
                                       EmptiedProcess(id, cur.entity), FALSE, c3)

resourceDeploymentProcessDelete(r, faults, emptyRefIsDefault) ==
    /\ dpPc[r] = "idle"
    /\ dpId[r] # EmptyString
    /\ VersionsBelowBound
    /\ LET o == DeleteLookup(dpId[r], faults, emptyRefIsDefault)
       IN  /\ dpInv' = [dpInv EXCEPT ![r] =
                           Started("Delete", r, NoConfig, o)]
           /\ dpPc' = [dpPc EXCEPT ![r] = IF o.err = "none" THEN "submit" ELSE "done"]
    /\ UNCHANGED <<procs, dpId>>

\* a Delete that removes the remote process instead of resetting it
DeleteSubmitRemoving(r, fault) ==
    /\ dpPc[r] = "submit"
    /\ dpInv[r].op = "Delete"
    /\ procs' = [l \in DOMAIN procs \ {dpInv[r].payload.Links} |-> procs[l]]
    /\ dpInv' = [dpInv EXCEPT ![r] = Finished(r, dpInv[r].payload, [err |-> "none"], "none")]
    /\ dpId' = [dpId EXCEPT ![r] = EmptyString]
    /\ dpPc' = [dpPc EXCEPT ![r] = "done"]

\* lines 118-125 and 148-155: submit the emptied process, clear the identifier
resourceDeploymentProcessDeleteSubmit(r, fault) ==
    /\ dpPc[r] = "submit"
    /\ dpInv[r].op = "Delete"
    /\ LET u == DeploymentProcessesUpdate(dpInv[r].payload, fault)
       IN  /\ procs' = u.procs
           /\ dpInv' = [dpInv EXCEPT ![r] = Finished(r, dpInv[r].payload, u, u.err)]
           /\ dpId' = [dpId EXCEPT ![r] =
                          IF u.err = "none" THEN EmptyString ELSE @]
    /\ dpPc' = [dpPc EXCEPT ![r] = "done"]

---------------------------------------------------------------------------
(* resourceDeploymentProcessRead *)

\* errors.DeleteFromState: drop the resource from state, no diagnostic
DeleteFromState(calls) == Outcome("none", EmptyString, NoPayload, FALSE, calls)

\* errors.ProcessApiError: not-found drops the resource from state, any
\* other API error is returned as a diagnostic
ProcessApiError(id, err, calls) ==
    IF err = "NotFound" THEN DeleteFromState(calls)
    ELSE Outcome(err, id, NoPayload, FALSE, calls)

\* a Read that returns the error of the last fetch instead of dropping the
\* resource from state
ReadLookupFailing(id, faults, emptyRefIsDefault, setErr) ==
    LET direct == DeploymentProcessesGetByID(id,
                      "DeploymentProcesses.GetByID" \in faults)
        c1 == <<GetByIDCall(id, direct)>>
        set == IF setErr THEN "SetState" ELSE "none"
    IN  IF direct.err = "none" THEN Outcome(set, id, NoPayload, FALSE, c1)
        ELSE LET projectID == FindProjectID(id)
                 pr == ProjectsGetByID(projectID, "Projects.GetByID" \in faults)
                 c2 == Append(c1, ProjectCall(projectID, pr))
             IN  IF pr.err # "none" THEN ProcessApiError(id, pr.err, c2)
                 ELSE LET gitRef == getGitRef(id)
                          cur == DeploymentProcessesGet(pr.project, gitRef,
                                     "DeploymentProcesses.Get" \in faults,
                                     emptyRefIsDefault)
                          c3 == Append(c2, GetCall(pr.project, gitRef, cur))
                      IN  IF cur.err = "none"
                          THEN Outcome(set, id, NoPayload, FALSE, c3)
                          ELSE Outcome(cur.err, id, NoPayload, FALSE, c3)

\* lines 161-191: direct lookup, then project and git ref from the
\* identifier; the outcome is what Read returns and the identifier it leaves
ReadLookup(id, faults, emptyRefIsDefault, setErr) ==
    LET direct == DeploymentProcessesGetByID(id,
                      "DeploymentProcesses.GetByID" \in faults)
        c1 == <<GetByIDCall(id, direct)>>
        set == IF setErr THEN "SetState" ELSE "none"
    IN  IF direct.err = "none" THEN Outcome(set, id, NoPayload, FALSE, c1)
        ELSE LET projectID == FindProjectID(id)
                 pr == ProjectsGetByID(projectID, "Projects.GetByID" \in faults)
                 c2 == Append(c1, ProjectCall(projectID, pr))
             IN  IF pr.err # "none" THEN ProcessApiError(id, pr.err, c2)
                 ELSE LET gitRef == getGitRef(id)
                          cur == DeploymentProcessesGet(pr.project, gitRef,
                                     "DeploymentProcesses.Get" \in faults,
                                     emptyRefIsDefault)
                          c3 == Append(c2, GetCall(pr.project, gitRef, cur))
                      IN  IF cur.err = "none"
                          THEN Outcome(set, id, NoPayload, FALSE, c3)
                          ELSE DeleteFromState(c3)

resourceDeploymentProcessRead(r, faults, emptyRefIsDefault, setErr) ==
    /\ dpPc[r] = "idle"
    /\ dpId[r] # EmptyString
    /\ LET o == ReadLookup(dpId[r], faults, emptyRefIsDefault, setErr)
       IN  /\ dpInv' = [dpInv EXCEPT ![r] =
                           Started("Read", r, NoConfig, o)]
           /\ dpId' = [dpId EXCEPT ![r] = o.id]
    /\ dpPc' = [dpPc EXCEPT ![r] = "done"]
    /\ UNCHANGED procs

---------------------------------------------------------------------------
(* resourceDeploymentProcessUpdate *)

\* Update as it would be if it fetched by the git ref of the identifier, as
\* Read does, instead of by the configured branch
UpdateLookupByGitRef(id, cfg, faults, emptyRefIsDefault) ==
    LET dp == expandDeploymentProcess(id, cfg)
        direct == DeploymentProcessesGetByID(id,
                      "DeploymentProcesses.GetByID" \in faults)
        c1 == <<GetByIDCall(id, direct)>>
    IN  IF direct.err = "none"
        THEN Outcome("none", id, WithCurrent(dp, direct.entity), FALSE, c1)
        ELSE LET projectID == FindProjectID(id)
                 pr == ProjectsGetByID(projectID, "Projects.GetByID" \in faults)
                 c2 == Append(c1, ProjectCall(projectID, pr))
                 gitRef == getGitRef(id)
             IN  IF pr.err # "none" THEN Outcome(pr.err, id, dp, FALSE, c2)
                 ELSE IF dp.Branch # gitRef /\ gitRef # EmptyString
                 THEN Outcome("BranchChange", id, dp, FALSE, c2)
                 ELSE LET vc == pr.project.VersionControlled
                          newId == IF vc THEN CompositeID(projectID, dp.Branch)
                                   ELSE id
                          dp2 == [dp EXCEPT !.ID = IF vc THEN newId ELSE @]
                          cur == DeploymentProcessesGet(pr.project, gitRef,
                                     "DeploymentProcesses.Get" \in faults,
                                     emptyRefIsDefault)
                          c3 == Append(c2, GetCall(pr.project, gitRef, cur))
                      IN  IF cur.err # "none"
                          THEN Outcome(cur.err, newId, dp2, vc, c3)
                          ELSE Outcome("none", newId,
                                       WithCurrent(dp2, cur.entity), vc, c3)

\* lines 198-227: direct lookup; on failure the project from the identifier,
\* the branch check against the recovered git ref, the composite identifier
\* for a version-controlled project, and the fetch by project and branch
UpdateLookup(id, cfg, faults, emptyRefIsDefault) ==
    LET dp == expandDeploymentProcess(id, cfg)
        direct == DeploymentProcessesGetByID(id,
                      "DeploymentProcesses.GetByID" \in faults)
        c1 == <<GetByIDCall(id, direct)>>
    IN  IF direct.err = "none"
        THEN Outcome("none", id, WithCurrent(dp, direct.entity), FALSE, c1)
        ELSE LET projectID == FindProjectID(id)
                 pr == ProjectsGetByID(projectID, "Projects.GetByID" \in faults)
                 c2 == Append(c1, ProjectCall(projectID, pr))
                 gitRef == getGitRef(id)
             IN  IF pr.err # "none" THEN Outcome(pr.err, id, dp, FALSE, c2)
                 ELSE IF dp.Branch # gitRef /\ gitRef # EmptyString
                 THEN Outcome("BranchChange", id, dp, FALSE, c2)
                 ELSE LET vc == pr.project.VersionControlled
                          newId == IF vc THEN CompositeID(projectID, dp.Branch)
                                   ELSE id
                          dp2 == [dp EXCEPT !.ID = IF vc THEN newId ELSE @]
                          cur == DeploymentProcessesGet(pr.project, dp.Branch,
                                     "DeploymentProcesses.Get" \in faults,
                                     emptyRefIsDefault)
                          c3 == Append(c2, GetCall(pr.project, dp.Branch, cur))
                      IN  IF cur.err # "none"
                          THEN Outcome(cur.err, newId, dp2, vc, c3)
                          ELSE Outcome("none", newId,
                                       WithCurrent(dp2, cur.entity), vc, c3)

resourceDeploymentProcessUpdate(r, cfg, faults, emptyRefIsDefault) ==
    /\ dpPc[r] = "idle"
    /\ dpId[r] # EmptyString
    /\ VersionsBelowBound
    /\ LET o == UpdateLookup(dpId[r], cfg, faults, emptyRefIsDefault)
       IN  /\ dpInv' = [dpInv EXCEPT ![r] = Started("Update", r, cfg, o)]
           /\ dpId' = [dpId EXCEPT ![r] = o.id]
           /\ dpPc' = [dpPc EXCEPT ![r] = IF o.err = "none" THEN "submit" ELSE "done"]
    /\ UNCHANGED procs

\* an Update that sends whatever version the server holds right now
UpdateSubmitRefetching(r, fault, setErr) ==
    /\ dpPc[r] = "submit"
    /\ dpInv[r].op = "Update"
    /\ dpInv[r].payload.Links \in DOMAIN procs
    /\ LET l == dpInv[r].payload.Links
           sent == [dpInv[r].payload EXCEPT !.Version = procs[l].Version]
           u == DeploymentProcessesUpdate(sent, FALSE)
       IN  /\ procs' = u.procs
           /\ dpInv' = [dpInv EXCEPT ![r] = Finished(r, sent, u, u.err)]
    /\ dpPc' = [dpPc EXCEPT ![r] = "done"]
    /\ UNCHANGED dpId

\* lines 229-239: submit the update, set state
resourceDeploymentProcessUpdateSubmit(r, fault, setErr) ==
    /\ dpPc[r] = "submit"
    /\ dpInv[r].op = "Update"
    /\ LET u == DeploymentProcessesUpdate(dpInv[r].payload, fault)
           err == IF u.err # "none" THEN u.err
                  ELSE IF setErr THEN "SetState" ELSE "none"
       IN  /\ procs' = u.procs
           /\ dpInv' = [dpInv EXCEPT ![r] = Finished(r, dpInv[r].payload, u, err)]
    /\ dpPc' = [dpPc EXCEPT ![r] = "done"]
    /\ UNCHANGED dpId

\* the handler has returned: the runtime takes the diagnostics and the
\* identifier, and the resource is ready for its next operation
Return(r) ==
    /\ dpPc[r] = "done"
    /\ dpPc' = [dpPc EXCEPT ![r] = "idle"]
    /\ dpInv' = [dpInv EXCEPT ![r] = NoInv]
    /\ UNCHANGED <<procs, dpId>>

---------------------------------------------------------------------------
(* Deployment-target-trigger resource *)

NoID == 0

TriggerIDs == 1..MaxTriggers

\* lines 35-41
ValidEventGroups ==
    {"Machine", "MachineCritical", "MachineAvailableForDeployment",
     "MachineUnavailableForDeployment", "MachineHealthChanged"}

\* lines 54-64
ValidEventCategories ==
    {"MachineCleanupFailed", "MachineAdded",
     "MachineDeploymentRelatedPropertyWasUpdated", "MachineDisabled",
     "MachineEnabled", "MachineHealthy", "MachineUnavailable",
     "MachineUnhealthy", "MachineHasWarnings"}

\* the lists a configuration may give for event_groups / event_categories
EventGroupLists ==
    {<< >>, <<"Machine">>, <<"BadValue">>, <<"Machine", "BadValue">>,
     <<"MachineCritical", "Machine">>}

EventCategoryLists ==
    {<< >>, <<"MachineAdded">>, <<"MachineAdded", "Bogus">>}

TriggerConfigs ==
    [event_groups : EventGroupLists, event_categories : EventCategoryLists]

\* validateAllSliceItemsInSlice: the first item outside the valid values
validateAllSliceItemsInSlice(items, validValues) ==
    LET bad == {i \in 1..Len(items) : items[i] \notin validValues}
    IN  IF bad = {} THEN [ok |-> TRUE, invalidValue |-> ""]
        ELSE [ok |-> FALSE,
              invalidValue |-> items[CHOOSE i \in bad : \A j \in bad : i <= j]]

\* a Build that does not validate event_categories
BuildSkippingCategories(cfg) ==
    LET g == validateAllSliceItemsInSlice(cfg.event_groups, ValidEventGroups)
    IN  IF cfg.event_groups # << >> /\ ~g.ok
        THEN [err |-> "InvalidEventGroups", invalidValue |-> g.invalidValue]
        ELSE [err |-> "none", invalidValue |-> ""]

\* lines 24-82: d.GetOk is false for an empty list, so only a list with
\* items is validated
buildProjectDeploymentTargetTriggerResource(cfg) ==
    LET g == validateAllSliceItemsInSlice(cfg.event_groups, ValidEventGroups)
        c == validateAllSliceItemsInSlice(cfg.event_categories,
                                          ValidEventCategories)
    IN  IF cfg.event_groups # << >> /\ ~g.ok
        THEN [err |-> "InvalidEventGroups", invalidValue |-> g.invalidValue]
        ELSE IF cfg.event_categories # << >> /\ ~c.ok
        THEN [err |-> "InvalidEventCategories", invalidValue |-> c.invalidValue]
        ELSE [err |-> "none", invalidValue |-> ""]

\* one call to the trigger service and how it ended
TrigCall(api, result) == [api |-> api, result |-> result]

TrigOutcome(op, cfg, idBefore, err, calls) ==
    [op |-> op, cfg |-> cfg, idBefore |-> idBefore, err |-> err, calls |-> calls]

NoTriggerConfig == [event_groups |-> << >>, event_categories |-> << >>]

NoTrigOutcome == TrigOutcome("none", NoTriggerConfig, NoID, "none", << >>)

\* a Create that forgets to store the identifier
TriggerCreateNoId(cfg, fault) ==
    /\ focus = "trigger"
    /\ trigId = NoID
    /\ Cardinality(triggers) < MaxTriggers
    /\ LET id == CHOOSE i \in TriggerIDs : i \notin triggers
       IN  /\ triggers' = triggers \cup {id}
           /\ trigRes' = TrigOutcome("Create", cfg, trigId, "none",
                                     <<TrigCall("ProjectTriggers.Add", "ok")>>)
    /\ UNCHANGED trigId

\* lines 84-103: ProjectTriggers.Add assigns the next free ID
resourceProjectDeploymentTargetTriggerCreate(cfg, fault) ==
    /\ focus = "trigger"
    /\ trigId = NoID
    /\ Cardinality(triggers) < MaxTriggers
    /\ LET b == buildProjectDeploymentTargetTriggerResource(cfg)
           id == CHOOSE i \in TriggerIDs : i \notin triggers
       IN  IF b.err # "none"
           THEN /\ trigRes' = TrigOutcome("Create", cfg, trigId, b.err, << >>)
                /\ UNCHANGED <<triggers, trigId>>
           ELSE IF fault
           THEN /\ trigRes' = TrigOutcome("Create", cfg, trigId, "Transient",
                                          <<TrigCall("ProjectTriggers.Add", "Transient")>>)
                /\ UNCHANGED <<triggers, trigId>>
           ELSE /\ triggers' = triggers \cup {id}
                /\ trigId' = (IF id = NoID THEN trigId ELSE id)
                /\ trigRes' = TrigOutcome("Create", cfg, trigId, "none",
                                          <<TrigCall("ProjectTriggers.Add", "ok")>>)

\* lines 105-128: ProjectTriggers.GetByID reports a missing trigger either
\* as an error or, when notFoundAsNil, as no resource and no error
resourceProjectDeploymentTargetTriggerRead(fault, notFoundAsNil) ==
    /\ focus = "trigger"
    /\ trigId # NoID
    /\ LET result == IF fault THEN "Transient"
                     ELSE IF trigId \in triggers THEN "ok"
                     ELSE IF notFoundAsNil THEN "Nil" ELSE "NotFound"
           err == IF result \in {"ok", "Nil"} THEN "none" ELSE result
       IN  /\ trigRes' = TrigOutcome("Read", NoTriggerConfig, trigId, err,
                              <<TrigCall("ProjectTriggers.GetByID", result)>>)
           /\ trigId' = (IF err = "none" /\ result = "Nil" THEN NoID ELSE trigId)
    /\ UNCHANGED triggers

\* lines 130-146
resourceProjectDeploymentTargetTriggerUpdate(cfg, fault) ==
    /\ focus = "trigger"
    /\ trigId # NoID
    /\ LET b == buildProjectDeploymentTargetTriggerResource(cfg)
           err == IF b.err # "none" THEN b.err
                  ELSE IF fault THEN "Transient"
                  ELSE IF trigId \notin triggers THEN "NotFound" ELSE "none"
       IN  trigRes' = TrigOutcome("Update", cfg, trigId, err,
                          IF b.err # "none" THEN << >>
                          ELSE <<TrigCall("ProjectTriggers.Update",
                                          IF err = "none" THEN "ok" ELSE err)>>)
    /\ UNCHANGED <<triggers, trigId>>

\* lines 148-157
resourceProjectDeploymentTargetTriggerDelete(fault) ==
    /\ focus = "trigger"
    /\ trigId # NoID
    /\ LET err == IF fault THEN "Transient"
                  ELSE IF trigId \notin triggers THEN "NotFound" ELSE "none"
       IN  /\ trigRes' = TrigOutcome("Delete", NoTriggerConfig, trigId, err,
                              <<TrigCall("ProjectTriggers.DeleteByID",
                                         IF err = "none" THEN "ok" ELSE err)>>)
           /\ triggers' = (IF err = "none" THEN triggers \ {trigId} ELSE triggers)
           /\ trigId' = (IF err = "none" THEN NoID ELSE trigId)

\* the trigger is removed on the server by someone else
TriggerRemovedRemotely ==
    /\ focus = "trigger"
    /\ trigId \in triggers
    /\ triggers' = triggers \ {trigId}
    /\ UNCHANGED <<trigId, trigRes>>

---------------------------------------------------------------------------
(* Lifecycle resource *)

MaxLifecycles == 2

LifecycleIDs == 1..MaxLifecycles

\* retention_policy blocks a configuration may give: none, or one block
\* (should_keep_forever is left at its schema default)
RetentionBlocks ==
    {<< >>,
     <<[unit |-> "Items", quantity_to_keep |-> 3, should_keep_forever |-> FALSE]>>}

\* lines 44-56 (the schema defaults; NewLifecycle starts from the same)
DefaultRetentionPeriod ==
    [Unit |-> "Days", QuantityToKeep |-> 30, ShouldKeepForever |-> FALSE]

PhaseNames == {"Dev", "Prod"}

\* a phase block: the name varies, the other attributes are schema defaults
PhaseBlock(name) ==
    [name |-> name, minimum_environments_before_promotion |-> 0,
     is_optional_phase |-> FALSE, automatic_deployment_targets |-> << >>,
     optional_deployment_targets |-> << >>]

\* the phase lists a configuration may give: up to MaxPhases phases
PhaseLists ==
    UNION {[1..n -> {PhaseBlock(x) : x \in PhaseNames}] : n \in 0..MaxPhases}

LifecycleConfigs ==
    [name : {"lc"}, description : {"text"}, phase : PhaseLists,
     release_retention_policy : RetentionBlocks,
     tentacle_retention_policy : {<< >>}]

\* lines 168-183: one block gives a retention period of unit and quantity
getRetentionPeriod(blocks) ==
    IF blocks # << >> /\ Len(blocks) = 1
    THEN [isNil |-> FALSE,
          period |-> [Unit |-> blocks[1].unit,
                      QuantityToKeep |-> blocks[1].quantity_to_keep,
                      ShouldKeepForever |-> FALSE]]
    ELSE [isNil |-> TRUE, period |-> DefaultRetentionPeriod]

\* lines 185-202
buildPhaseResource(tfPhase) ==
    [Name |-> tfPhase.name,
     MinimumEnvironmentsBeforePromotion |->
         tfPhase.minimum_environments_before_promotion,
     IsOptionalPhase |-> tfPhase.is_optional_phase,
     AutomaticDeploymentTargets |-> tfPhase.automatic_deployment_targets,
     OptionalDeploymentTargets |-> tfPhase.optional_deployment_targets]

\* lines 134-166
buildLifecycleResource(cfg) ==
    LET release == getRetentionPeriod(cfg.release_retention_policy)
        tentacle == getRetentionPeriod(cfg.tentacle_retention_policy)
    IN  [Name |-> cfg.name,
         Description |-> cfg.description,
         ReleaseRetentionPolicy |->
             IF release.isNil THEN DefaultRetentionPeriod ELSE release.period,
         TentacleRetentionPolicy |->
             IF tentacle.isNil THEN DefaultRetentionPeriod ELSE tentacle.period,
         Phases |-> [i \in 1..Len(cfg.phase) |-> buildPhaseResource(cfg.phase[i])]]

\* lines 240-251 (the server-assigned id and the nested retention blocks of
\* a phase are left out: Build does not read them either)
flattenPhase(p) ==
    <<[name |-> p.Name,
       minimum_environments_before_promotion |->
           p.MinimumEnvironmentsBeforePromotion,
       is_optional_phase |-> p.IsOptionalPhase,
       automatic_deployment_targets |-> p.AutomaticDeploymentTargets,
       optional_deployment_targets |-> p.OptionalDeploymentTargets]>>

\* lines 253-259
flattenRetentionPeriod(r) ==
    <<[unit |-> r.Unit, quantity_to_keep |-> r.QuantityToKeep,
       should_keep_forever |-> r.ShouldKeepForever]>>

\* lines 265-267: each turn of the loop sets the whole "phase" attribute to
\* the one phase at hand, so the attribute ends as the last phase; with no
\* phases it is not set at all
RECURSIVE SetPhases(_, _)
SetPhases(phases, attr) ==
    IF phases = << >> THEN attr
    ELSE SetPhases(Tail(phases), flattenPhase(Head(phases)))

\* lines 261-273: the resource attributes after flattening the lifecycle
flattenLifecycle(state, lifecycle) ==
    [name |-> lifecycle.Name,
     description |-> lifecycle.Description,
     phase |-> SetPhases(lifecycle.Phases, state.phase),
     release_retention_policy |->
         flattenRetentionPeriod(lifecycle.ReleaseRetentionPolicy),
     tentacle_retention_policy |->
         flattenRetentionPeriod(lifecycle.TentacleRetentionPolicy)]

NoLifecycleState ==
    [name |-> "", description |-> "", phase |-> << >>,
     release_retention_policy |-> << >>, tentacle_retention_policy |-> << >>]

\* the outcome of a lifecycle handler: cfg is the configuration the resource
\* was last created or updated with, readAfter the operation a Read followed
LcOutcome(op, cfg, idBefore, err, readAfter) ==
    [op |-> op, cfg |-> cfg, idBefore |-> idBefore, err |-> err,
     readAfter |-> readAfter]

NoLcOutcome == LcOutcome("none", NoLifecycleState, NoID, "none", "none")

\* lines 121-132: Lifecycles.Add stores the lifecycle as submitted under the
\* next free ID and returns it
resourceLifecycleCreate(cfg, fault) ==
    /\ focus = "lifecycle"
    /\ lcId = NoID
    /\ Cardinality(DOMAIN lifecycles) < MaxLifecycles
    /\ LET id == CHOOSE i \in LifecycleIDs : i \notin DOMAIN lifecycles
           lifecycle == buildLifecycleResource(cfg)
       IN  IF fault
           THEN /\ lcRes' = LcOutcome("Create", cfg, lcId, "Transient", "none")
                /\ UNCHANGED <<lifecycles, lcId, lcState>>
           ELSE /\ lifecycles' = [i \in DOMAIN lifecycles \cup {id} |->
                                     IF i = id THEN lifecycle ELSE lifecycles[i]]
                /\ lcState' = flattenLifecycle(cfg, lifecycle)
                /\ lcId' = id
                /\ lcRes' = LcOutcome("Create", cfg, lcId, "none", "none")

\* lines 204-213
resourceLifecycleRead(fault) ==
    /\ focus = "lifecycle"
    /\ lcId # NoID
    /\ LET err == IF fault THEN "Transient"
                  ELSE IF lcId \notin DOMAIN lifecycles THEN "NotFound"
                  ELSE "none"
           after == IF lcRes.op = "Read" THEN lcRes.readAfter ELSE lcRes.op
       IN  /\ lcRes' = LcOutcome("Read", lcRes.cfg, lcId, err,
                                 IF lcRes.err = "none" THEN after ELSE "none")
           /\ lcState' = (IF err = "none"
                          THEN flattenLifecycle(lcState, lifecycles[lcId])
                          ELSE lcState)
    /\ UNCHANGED <<lifecycles, lcId>>

\* lines 215-227
resourceLifecycleUpdate(cfg, fault) ==
    /\ focus = "lifecycle"
    /\ lcId # NoID
    /\ LET lifecycle == buildLifecycleResource(cfg)
           err == IF fault THEN "Transient"
                  ELSE IF lcId \notin DOMAIN lifecycles THEN "NotFound"
                  ELSE "none"
       IN  /\ lcRes' = LcOutcome("Update", cfg, lcId, err, "none")
           /\ lifecycles' = (IF err = "none"
                             THEN [lifecycles EXCEPT ![lcId] = lifecycle]
                             ELSE lifecycles)
           /\ lcState' = (IF err = "none" THEN flattenLifecycle(cfg, lifecycle)
                          ELSE lcState)
    /\ UNCHANGED lcId

\* lines 229-238
resourceLifecycleDelete(fault) ==
    /\ focus = "lifecycle"
    /\ lcId # NoID
    /\ LET err == IF fault THEN "Transient"
                  ELSE IF lcId \notin DOMAIN lifecycles THEN "NotFound"
                  ELSE "none"
       IN  /\ lcRes' = LcOutcome("Delete", lcRes.cfg, lcId, err, "none")
           /\ lifecycles' = (IF err = "none"
                             THEN [i \in DOMAIN lifecycles \ {lcId} |-> lifecycles[i]]
                             ELSE lifecycles)
           /\ lcId' = (IF err = "none" THEN NoID ELSE lcId)
    /\ UNCHANGED lcState

---------------------------------------------------------------------------
(* The identifier round trip: Create's identifier through getGitRef *)

\* the sequences over S of 1..n elements
SeqsUpTo(S, n) == UNION {[1..k -> S] : k \in 1..n}

\* project numbers and branch names drawn for the round trip
DigitStrings == SeqsUpTo({"1", "2"}, MaxDigits)

BranchStrings == SeqsUpTo({"a", "7", "_"}, MaxBranchLen)

NoRef == [id |-> EmptyString, ref |-> EmptyString, done |-> FALSE]

\* lines 95-98 then 242-249: the identifier Create assigns to a
\* version-controlled process, and the git ref getGitRef recovers from it
ExtractGitRef ==
    /\ focus = "ref"
    /\ ~refOut.done
    /\ LET id == CreatedID(TRUE,
                     [ID |-> EmptyString,
                      ProjectID |-> ProjectsPrefix \o refIn.digits],
                     refIn.branch)
       IN  refOut' = [id |-> id, ref |-> getGitRef(id), done |-> TRUE]
    /\ UNCHANGED refIn

---------------------------------------------------------------------------
(* Specification *)

Foci == {"process", "concurrent", "trigger", "lifecycle", "ref"}

InitialProcs == [l \in InitialLinks |-> [Version |-> 0, Steps |-> "s0"]]

Init ==
    /\ focus \in Foci
    /\ procs = InitialProcs
    /\ dpId \in [Resources -> InitialIds]
    /\ \A r \in Resources :
           (focus # "process" \/ r \notin ActiveResources)
               => dpId[r] = EmptyString
    /\ dpPc = [r \in Resources |-> "idle"]
    /\ dpInv = [r \in Resources |-> NoInv]
    /\ triggers = {}
    /\ trigId = NoID
    /\ trigRes = NoTrigOutcome
    /\ lifecycles = << >>
    /\ lcId = NoID
    /\ lcState = NoLifecycleState
    /\ lcRes = NoLcOutcome
    /\ refIn \in [digits : DigitStrings, branch : BranchStrings]
    /\ focus # "ref" => refIn = [digits |-> <<"1">>, branch |-> <<"a">>]
    /\ refOut = NoRef

CreateStep ==
    \E r \in ActiveResources, cfg \in Configs, faults \in FaultSets,
       e \in EmptyRefAnswers :
        /\ focus \in {"process", "concurrent"}
        /\ resourceDeploymentProcessCreate(r, cfg, faults, e)
        /\ UNCHANGED <<focus, trigVars, lcVars, refVars>>

CreateSubmitStep ==
    \E r \in ActiveResources, fault \in UpdateFaults, setErr \in UpdateFaults :
        /\ resourceDeploymentProcessCreateSubmit(r, fault, setErr)
        /\ UNCHANGED <<focus, trigVars, lcVars, refVars>>

DeleteStep ==
    \E r \in ActiveResources, faults \in FaultSets, e \in EmptyRefAnswers :
        /\ focus \in {"process", "concurrent"}
        /\ resourceDeploymentProcessDelete(r, faults, e)
        /\ UNCHANGED <<focus, trigVars, lcVars, refVars>>

DeleteSubmitStep ==
    \E r \in ActiveResources, fault \in UpdateFaults :
        /\ resourceDeploymentProcessDeleteSubmit(r, fault)
        /\ UNCHANGED <<focus, trigVars, lcVars, refVars>>

ReadStep ==
    \E r \in ActiveResources, faults \in FaultSets, e \in EmptyRefAnswers,
       setErr \in UpdateFaults :
        /\ focus \in {"process", "concurrent"}
        /\ resourceDeploymentProcessRead(r, faults, e, setErr)
        /\ UNCHANGED <<focus, trigVars, lcVars, refVars>>

UpdateStep ==
    \E r \in ActiveResources, cfg \in Configs, faults \in FaultSets,
       e \in EmptyRefAnswers :
        /\ focus \in {"process", "concurrent"}
        /\ resourceDeploymentProcessUpdate(r, cfg, faults, e)
        /\ UNCHANGED <<focus, trigVars, lcVars, refVars>>

UpdateSubmitStep ==
    \E r \in ActiveResources, fault \in UpdateFaults, setErr \in UpdateFaults :
        /\ resourceDeploymentProcessUpdateSubmit(r, fault, setErr)
        /\ UNCHANGED <<focus, trigVars, lcVars, refVars>>

ReturnStep ==
    \E r \in ActiveResources :
        /\ Return(r)
        /\ UNCHANGED <<focus, trigVars, lcVars, refVars>>

TriggerCreateStep ==
    \E cfg \in TriggerConfigs, fault \in BOOLEAN :
        /\ resourceProjectDeploymentTargetTriggerCreate(cfg, fault)
        /\ UNCHANGED <<focus, dpVars, lcVars, refVars>>

TriggerReadStep ==
    \E fault \in BOOLEAN, notFoundAsNil \in BOOLEAN :
        /\ resourceProjectDeploymentTargetTriggerRead(fault, notFoundAsNil)
        /\ UNCHANGED <<focus, dpVars, lcVars, refVars>>

TriggerUpdateStep ==
    \E cfg \in TriggerConfigs, fault \in BOOLEAN :
        /\ resourceProjectDeploymentTargetTriggerUpdate(cfg, fault)
        /\ UNCHANGED <<focus, dpVars, lcVars, refVars>>

TriggerDeleteStep ==
    \E fault \in BOOLEAN :
        /\ resourceProjectDeploymentTargetTriggerDelete(fault)
        /\ UNCHANGED <<focus, dpVars, lcVars, refVars>>

TriggerRemovedStep ==
    /\ TriggerRemovedRemotely
    /\ UNCHANGED <<focus, dpVars, lcVars, refVars>>

LifecycleCreateStep ==
    \E cfg \in LifecycleConfigs, fault \in BOOLEAN :
        /\ resourceLifecycleCreate(cfg, fault)
        /\ UNCHANGED <<focus, dpVars, trigVars, refVars>>

LifecycleReadStep ==
    \E fault \in BOOLEAN :
        /\ resourceLifecycleRead(fault)
        /\ UNCHANGED <<focus, dpVars, trigVars, refVars>>

LifecycleUpdateStep ==
    \E cfg \in LifecycleConfigs, fault \in BOOLEAN :
        /\ resourceLifecycleUpdate(cfg, fault)
        /\ UNCHANGED <<focus, dpVars, trigVars, refVars>>

LifecycleDeleteStep ==
    \E fault \in BOOLEAN :
        /\ resourceLifecycleDelete(fault)
        /\ UNCHANGED <<focus, dpVars, trigVars, refVars>>

ExtractGitRefStep ==
    /\ ExtractGitRef
    /\ UNCHANGED <<focus, dpVars, trigVars, lcVars>>

Next ==
    \/ CreateStep
    \/ CreateSubmitStep
    \/ DeleteStep
    \/ DeleteSubmitStep
    \/ ReadStep
    \/ UpdateStep
    \/ UpdateSubmitStep
    \/ ReturnStep
    \/ TriggerCreateStep
    \/ TriggerReadStep
    \/ TriggerUpdateStep
    \/ TriggerDeleteStep
    \/ TriggerRemovedStep
    \/ LifecycleCreateStep
    \/ LifecycleReadStep
    \/ LifecycleUpdateStep
    \/ LifecycleDeleteStep
    \/ ExtractGitRefStep

Spec == Init /\ [][Next]_vars

---------------------------------------------------------------------------
(* Helpers of the properties *)

DpFocus == focus \in {"process", "concurrent"}

\* the calls of one API in a call log
CallsTo(calls, api) == {i \in 1..Len(calls) : calls[i].api = api}

\* the invocation of r has returned from handler op
Returned(r, op) == dpPc[r] = "done" /\ dpInv[r].op = op

\* the handler of r took the fallback path: its direct ID lookup failed
DirectLookupFailed(r) ==
    /\ Len(dpInv[r].calls) >= 1
    /\ dpInv[r].calls[1].api = "DeploymentProcesses.GetByID"
    /\ dpInv[r].calls[1].err # "none"

\* the branches an identifier of the composite form can encode here
EncodedBranches == {Main, Dev}

---------------------------------------------------------------------------
(* C10 *)

\* C10: the git ref getGitRef extracts from the identifier Create assigns,
\* "deploymentprocess-" + Projects-<digits> + "-" + branch, is that branch,
\* for every branch made of word characters.
GitRefRoundTrip == refOut.done => refOut.ref = refIn.branch

---------------------------------------------------------------------------
(* C1 *)

\* r runs or has run an Update on an identifier of the composite form whose
\* encoded branch differs from the configured one, after a failed direct lookup
BranchChangeAttempt(r) ==
    /\ DpFocus
    /\ dpInv[r].op = "Update"
    /\ DirectLookupFailed(r)
    /\ \E p \in {ProjDb, ProjVcs}, b \in EncodedBranches :
          /\ dpInv[r].idBefore = CompositeID(p, b)
          /\ dpInv[r].branch # b

\* C1: an Update whose stored identifier is deploymentprocess-<projectID>-<branch>
\* (direct lookup fails) and whose configured branch differs from <branch>
\* returns an error and issues no Update call to the remote API.
BranchChangeRejected ==
    \A r \in Resources :
        BranchChangeAttempt(r) =>
            /\ dpPc[r] = "done"
            /\ dpInv[r].err # "none"
            /\ CallsTo(dpInv[r].calls, "DeploymentProcesses.Update") = {}

---------------------------------------------------------------------------
(* C2 *)

\* the project the server holds under the configured project ID
ConfiguredProject(r) == CHOOSE p \in Projects : p.ID = dpInv[r].project

\* C2: after a Create that succeeds, the stored identifier is
\* "deploymentprocess-" + configured project ID + "-" + configured branch when
\* the project is version-controlled, and the server-assigned ID of the
\* updated process when it is not.
CreateAssignsIdentifier ==
    \A r \in Resources :
        (DpFocus /\ Returned(r, "Create") /\ dpInv[r].err = "none") =>
            IF ConfiguredProject(r).VersionControlled
            THEN dpId[r] = DeploymentProcessPrefix \o dpInv[r].project
                               \o Hyphen \o dpInv[r].branch
            ELSE dpId[r] = Entity(dpInv[r].payload.Links).ID

\* a Create on the version-controlled project, branch main, has succeeded
CreateAssignsIdentifierWitness ==
    /\ focus = "process"
    /\ Returned(1, "Create")
    /\ dpInv[1].err = "none"
    /\ dpInv[1].project = ProjVcs
    /\ dpInv[1].branch = Main
    /\ dpId[1] = CompositeID(ProjVcs, Main)

---------------------------------------------------------------------------
(* C3 *)

\* C3: Create followed by Read, against a server that stores and returns
\* what was submitted, leaves resource state equal to the configuration:
\* name, description, every configured phase in the configured order, and
\* the retention policies that were configured.
LifecycleRoundTrip ==
    (lcRes.op = "Read" /\ lcRes.readAfter = "Create" /\ lcRes.err = "none") =>
        /\ lcState.name = lcRes.cfg.name
        /\ lcState.description = lcRes.cfg.description
        /\ lcState.phase = lcRes.cfg.phase
        /\ lcRes.cfg.release_retention_policy # << >> =>
               lcState.release_retention_policy
                   = lcRes.cfg.release_retention_policy
        /\ lcRes.cfg.tentacle_retention_policy # << >> =>
               lcState.tentacle_retention_policy
                   = lcRes.cfg.tentacle_retention_policy

---------------------------------------------------------------------------
(* C4 *)

\* the configuration names an event group or category outside its enumeration
HasInvalidEvent(cfg) ==
    \/ \E i \in 1..Len(cfg.event_groups) :
          cfg.event_groups[i] \notin ValidEventGroups
    \/ \E i \in 1..Len(cfg.event_categories) :
          cfg.event_categories[i] \notin ValidEventCategories

\* C4: when event_groups or event_categories holds a value outside its
\* enumeration, Create and Update of the trigger return an error, issue no
\* call to the API client and leave the stored identifier unchanged.
InvalidEventsRejected ==
    (trigRes.op \in {"Create", "Update"} /\ HasInvalidEvent(trigRes.cfg)) =>
        /\ trigRes.err # "none"
        /\ trigRes.calls = << >>
        /\ trigId = trigRes.idBefore

\* an Update with valid event groups and one invalid category was refused
InvalidEventsRejectedWitness ==
    /\ trigRes.op = "Update"
    /\ trigRes.cfg.event_groups = <<"Machine">>
    /\ trigRes.cfg.event_categories = <<"MachineAdded", "Bogus">>
    /\ trigRes.err = "InvalidEventCategories"
    /\ trigId # NoID

---------------------------------------------------------------------------
(* C5 *)

\* the process kept at l can be looked up: by ID when it is stored in the
\* database, by project and ref when it is stored in git
LookupFinds(l) ==
    IF l.ref = EmptyString
    THEN DeploymentProcessesGetByID(DeploymentProcessPrefix \o l.project,
                                    FALSE).err = "none"
    ELSE \E p \in Projects :
            /\ p.ID = l.project
            /\ DeploymentProcessesGet(p, l.ref, FALSE, FALSE).err = "none"

\* C5: no sequence of Create, Read, Update and Delete changes the set of
\* remote deployment processes; after a Delete that succeeded, looking the
\* reset process up still returns an entity.
RemoteProcessesKept ==
    /\ DOMAIN procs = InitialLinks
    /\ \A r \in Resources :
           (Returned(r, "Delete") /\ dpInv[r].err = "none") =>
               LookupFinds(dpInv[r].payload.Links)

\* a Delete has succeeded and left the process it reset on the server
RemoteProcessesKeptWitness ==
    /\ Returned(1, "Delete")
    /\ dpInv[1].err = "none"
    /\ dpId[1] = EmptyString
    /\ procs[dpInv[1].payload.Links].Steps = "empty"

---------------------------------------------------------------------------
(* C6 *)

\* the fallback of r found no process: the project of the identifier does
\* not exist, or the fetch by project and git ref failed
FallbackFoundNothing(r) ==
    LET c == dpInv[r].calls
    IN  \/ Len(c) = 2 /\ c[2].api = "Projects.GetByID" /\ c[2].err = "NotFound"
        \/ Len(c) = 3 /\ c[3].api = "DeploymentProcesses.Get" /\ c[3].err # "none"

---------------------------------------------------------------------------
(* C7 *)

\* C7: when the trigger with the stored identifier does not exist on the
\* server, Read returns no error and clears the stored identifier.
TriggerReadMissingClears ==
    (/\ trigRes.op = "Read"
     /\ trigRes.calls[1].result \in {"NotFound", "Nil"}) =>
        (trigRes.err = "none" /\ trigId = NoID)

---------------------------------------------------------------------------
(* C8 *)

UpdateApi == "DeploymentProcesses.Update"

\* the version the last successful fetch of a call log brought back
FetchedVersion(calls) ==
    LET fetches == {i \in 1..Len(calls) :
                       /\ calls[i].api \in {"DeploymentProcesses.GetByID",
                                            "DeploymentProcesses.Get"}
                       /\ calls[i].err = "none"}
    IN  IF fetches = {} THEN 0 - 1
        ELSE calls[CHOOSE i \in fetches : \A j \in fetches : j <= i].version

\* the step in which r submits its update
SubmitOf(r) == dpPc[r] = "submit" /\ dpPc'[r] = "done"

\* C8: in any interleaving, an invocation submits at most one Update call,
\* carrying the version it fetched earlier in that invocation; if that
\* version is stale the server rejects it, the handler returns the error and
\* nothing is changed; a process changes only by an update whose fetched
\* version is the version the server holds.
StaleUpdatesRejected ==
    [][\A r \in Resources :
          /\ Cardinality(CallsTo(dpInv'[r].calls, UpdateApi)) <= 1
          /\ SubmitOf(r) =>
                LET before == dpInv[r].calls
                    after == dpInv'[r].calls
                    sent == after[Len(after)]
                    l == dpInv[r].payload.Links
                IN  /\ Len(after) = Len(before) + 1
                    /\ sent.api = UpdateApi
                    /\ sent.version = FetchedVersion(before)
                    /\ FetchedVersion(before) # procs[l].Version =>
                           /\ procs' = procs
                           /\ sent.err # "none"
                           /\ dpInv'[r].err = sent.err
                    /\ procs' # procs =>
                           /\ procs[l].Version = FetchedVersion(before)
                           /\ \A k \in DOMAIN procs \ {l} : procs'[k] = procs[k]]_vars

\* two invocations fetched the same version of the same process; the first
\* update was accepted and the second, now stale, came back as a conflict
StaleUpdatesRejectedWitness ==
    /\ focus = "concurrent"
    /\ dpPc[1] = "done" /\ dpPc[2] = "done"
    /\ dpInv[1].payload.Links = dpInv[2].payload.Links
    /\ dpInv[1].payload.Version = dpInv[2].payload.Version
    /\ dpInv[1].err = "none"
    /\ dpInv[2].err = "Conflict"

---------------------------------------------------------------------------
(* C9 *)

---------------------------------------------------------------------------
(* C11 *)

GetApi == "DeploymentProcesses.Get"

\* the (project, ref) pair of the fetch by project and ref in a call log
FallbackPair(calls) ==
    LET i == CHOOSE k \in CallsTo(calls, GetApi) : TRUE
    IN  <<calls[i].project, calls[i].ref>>

\* the calls Read issues for identifier id when its direct lookup fails
ReadCallsFor(id) ==
    ReadLookup(id, {"DeploymentProcesses.GetByID"}, FALSE, FALSE).calls

\* C11: when the direct ID lookup fails, Update and Delete fetch the current
\* entity with the same (project, ref) pair as Read does for the same stored
\* identifier: the Projects-<digits> match and the git ref recovered from it.
SameFallbackLookup ==
    \A r \in Resources :
        (/\ dpInv[r].op \in {"Update", "Delete"}
         /\ DirectLookupFailed(r)
         /\ CallsTo(dpInv[r].calls, GetApi) # {}) =>
            /\ CallsTo(ReadCallsFor(dpInv[r].idBefore), GetApi) # {}
            /\ FallbackPair(dpInv[r].calls)
                   = FallbackPair(ReadCallsFor(dpInv[r].idBefore))

\* C11 as the code has it: when the direct ID lookup fails, Read and Delete
\* fetch by (the Projects-<digits> match, the git ref getGitRef recovers from
\* the identifier), while Update fetches by (the Projects-<digits> match, the
\* configured branch), which it has checked to equal the recovered git ref
\* whenever that ref is not empty.
FallbackLookupPairs ==
    \A r \in Resources :
        (/\ dpInv[r].op \in {"Read", "Update", "Delete"}
         /\ DirectLookupFailed(r)
         /\ CallsTo(dpInv[r].calls, GetApi) # {}) =>
            LET id     == dpInv[r].idBefore
                gitRef == getGitRef(id)
            IN  IF dpInv[r].op = "Update"
                THEN /\ FallbackPair(dpInv[r].calls)
                            = <<FindProjectID(id), dpInv[r].branch>>
                     /\ gitRef # EmptyString => dpInv[r].branch = gitRef
                ELSE FallbackPair(dpInv[r].calls) = <<FindProjectID(id), gitRef>>

\* an Update whose fallback fetched by a configured branch that Read would
\* not fetch by, next to a Read and a Delete that took the fallback
FallbackLookupPairsWitness ==
    /\ \E r \in Resources :
          /\ dpInv[r].op = "Update"
          /\ DirectLookupFailed(r)
          /\ CallsTo(dpInv[r].calls, GetApi) # {}
          /\ FallbackPair(dpInv[r].calls)
                 # FallbackPair(ReadCallsFor(dpInv[r].idBefore))
    /\ \E r \in Resources :
          /\ dpInv[r].op \in {"Read", "Delete"}
          /\ DirectLookupFailed(r)
          /\ CallsTo(dpInv[r].calls, GetApi) # {}

---------------------------------------------------------------------------
(* C12 *)

\* C12: whenever Update returns an error diagnostic, the stored identifier
\* equals its value before the Update was invoked.
FailedUpdateKeepsIdentifier ==
    \A r \in Resources :
        (Returned(r, "Update") /\ dpInv[r].err # "none") =>
            dpId[r] = dpInv[r].idBefore

====
